---- MODULE Spec2Model ----
(***************************************************************************)
(* Model of the audio-isolation route handler                              *)
(* (src/app/api/process-audio/route.ts) and of the object-store helper     *)
(* (src/lib/s3.ts): the status poller pollJobStatus, the retry helper, and *)
(* the POST pipeline that sequences validation, upload, isolation, merge   *)
(* submission and polling.                                                 *)
(*                                                                         *)
(* One step of the model is the code that runs between two await points:   *)
(* an await of an external call settles in one step together with all the  *)
(* synchronous code that follows it up to the next await.                  *)
(***************************************************************************)
EXTENDS Integers, Sequences, FiniteSets, TLC

\* ---------------------------------------------------------------- bounds
\* Largest maxAttempts given to pollJobStatus when it is checked on its own.
PollBudgetBound == 4
\* Largest retry count given to retry when it is checked on its own.
RetryBound == 4

\* The value Date.now() returns first.
ClockStart == 1000

\* ------------------------------------------------------ program constants
MAX_RETRIES == 3
RETRY_DELAY == 5000
DefaultMaxAttempts == 60

\* ------------------------------------------------------------ JS strings
\* String.prototype.includes: p occurs in s as a contiguous substring.
Includes(s, p) ==
  \E i \in 1..(Len(s) - Len(p) + 1) : SubSeq(s, i, i + Len(p) - 1) = p

\* String.prototype.indexOf: the first position (1-based) at which p occurs
\* in s, or 0.
IndexOf(s, p) ==
  LET hits == {i \in 1..(Len(s) - Len(p) + 1) : SubSeq(s, i, i + Len(p) - 1) = p}
  IN  IF hits = {} THEN 0 ELSE CHOOSE i \in hits : \A j \in hits : i <= j

\* String.prototype.lastIndexOf (1-based, 0 when p does not occur).
LastIndexOf(s, p) ==
  LET hits == {i \in 1..(Len(s) - Len(p) + 1) : SubSeq(s, i, i + Len(p) - 1) = p}
  IN  IF hits = {} THEN 0 ELSE CHOOSE i \in hits : \A j \in hits : i >= j

\* s.split(sep).pop(): what follows the last occurrence of the one-character
\* separator, or all of s when it has none.
SplitPop(s, sep) == SubSeq(s, LastIndexOf(s, sep) + 1, Len(s))

Upper == "ABCDEFGHIJKLMNOPQRSTUVWXYZ"
Lower == "abcdefghijklmnopqrstuvwxyz"

RECURSIVE ToLowerCase(_)
\* String.prototype.toLowerCase on ASCII text.
ToLowerCase(s) ==
  IF s = "" THEN ""
  ELSE LET c == SubSeq(s, 1, 1)
           k == IndexOf(Upper, c)
       IN  (IF k = 0 THEN c ELSE SubSeq(Lower, k, k))
             \o ToLowerCase(SubSeq(s, 2, Len(s)))

\* The position of the first of the characters `?` and `#` in s, or
\* Len(s) + 1 when it has neither.
QueryStart(s) ==
  LET q == IndexOf(s, "?")
      h == IndexOf(s, "#")
      cut == {i \in {q, h} : i > 0}
  IN  IF cut = {} THEN Len(s) + 1 ELSE CHOOSE i \in cut : \A j \in cut : i <= j

\* new URL(s) for an absolute URL `scheme://host/path?query#fragment`:
\* whether it parses, and its pathname.  A string with no scheme, or with an
\* empty host, does not parse.
ParseURL(s) ==
  LET i == IndexOf(s, "://")
      scheme == SubSeq(s, 1, i - 1)
      rest == SubSeq(s, i + 3, Len(s))
      auth == SubSeq(rest, 1, QueryStart(rest) - 1)
      slash == IndexOf(auth, "/")
      host == IF slash = 0 THEN auth ELSE SubSeq(auth, 1, slash - 1)
      okScheme == i > 1 /\ \A k \in 1..Len(scheme) :
                    IndexOf(Lower \o Upper, SubSeq(scheme, k, k)) > 0
  IN  IF okScheme /\ host # "" /\ ~Includes(host, " ")
        THEN [ok |-> TRUE,
              pathname |-> IF slash = 0 THEN "/" ELSE SubSeq(auth, slash, Len(auth))]
        ELSE [ok |-> FALSE]

\* fileName.replace(/\.[^/.]+$/, ''): a final `.ext` (one or more characters
\* other than `/` and `.`) is dropped.
StripExtension(s) ==
  LET d == LastIndexOf(s, ".")
      ext == SubSeq(s, d + 1, Len(s))
  IN  IF d > 0 /\ ext # "" /\ ~Includes(ext, "/") THEN SubSeq(s, 1, d - 1) ELSE s

\* A JS Error object: its name and its message.
Err(name, message) == [name |-> name, message |-> message]

\* A JSON object is a function from the fields it has to their values; a
\* field it lacks reads as undefined.
Has(obj, f) == f \in DOMAIN obj
\* Truthiness of obj.f for a string field: undefined and "" are falsy.
Truthy(obj, f) == Has(obj, f) /\ obj[f] # ""
\* obj.f interpolated in a template literal.
Interp(obj, f) == IF Has(obj, f) THEN obj[f] ELSE "undefined"

\* What a call has produced: nothing yet, a value returned, an error thrown.
NoResp == [kind |-> "none"]
Pending == [kind |-> "pending"]
Return(v) == [kind |-> "return", value |-> v]
Throw(e) == [kind |-> "throw", error |-> e]
\* The value of a local that was never assigned.
Undefined == [kind |-> "undefined"]

VARIABLES
  env,          \* process.env values read at module load (a JSON-like object)
  pollPc,       \* pollJobStatus: position ("idle", "enter", "query",
                \*   "sleepProcessing", "sleepCatch", "done")
  jobId,        \* pollJobStatus: its jobId argument
  maxAttempts,  \* pollJobStatus: its maxAttempts argument
  attempt,      \* pollJobStatus: the loop variable (0-based)
  queries,      \* number of status queries issued (fetch, line 48)
  delays,       \* number of setTimeout waits of the poller (lines 75, 91)
  onlyProcessing, \* every status query before the most recent one was
                \*   answered `processing`
  lastResp,     \* what the most recent status query produced
  pollOut,      \* pollJobStatus: pending, its return value or the error thrown
  retryPc,      \* retry: position ("idle", "call", "sleep", "done")
  retries,      \* retry: its retries argument (N)
  delay,        \* retry: its delay argument (D, in ms)
  rAttempt,     \* retry: the loop variable (1-based)
  lastError,    \* retry: its lastError local
  calls,        \* number of invocations of the operation (line 119)
  sleeps,       \* number of setTimeout waits of retry (line 126)
  sleepLens,    \* the lengths of those waits
  nFail,        \* number of invocations that failed
  lastOp,       \* how the most recent invocation settled
  retryOut,     \* retry: pending, its return value or the error thrown
  form,         \* POST: the request's form data (fields `audio`, `videoUrl`)
  stage,        \* POST: the stage the handler is in
  response,     \* POST: the response returned, once there is one
  finalVideoUrl, \* POST: its finalVideoUrl local
  audioUrl,     \* POST: its audioUrl local
  processedAudio, \* POST: the stream the isolation stage produced
  pending,      \* POST: the arguments of the external call in flight
  ext,          \* external calls issued: URL fetches, uploads, merge submits
  inFlight,     \* an isolation call is in flight
  timerPending, \* the attempts whose abort timer (line 208) is set and has
                \*   neither run nor been cleared
  aborted,      \* controller.signal.aborted of the attempt in flight
  now,          \* the latest value Date.now() returned
  s3,           \* the PutObject commands the object store accepted, in order
  peer          \* a second invocation of POST running beside the first: its
                \*   form, stage and locals

pollVars == <<pollPc, jobId, maxAttempts, attempt, queries, delays,
              onlyProcessing, lastResp, pollOut>>
retryVars == <<retryPc, retries, delay, rAttempt, lastError, calls, sleeps,
               sleepLens, nFail, lastOp, retryOut>>
postVars == <<form, stage, response, finalVideoUrl, audioUrl, processedAudio,
              pending, ext, inFlight, timerPending, aborted, now, s3, peer>>
vars == <<env, pollVars, retryVars, postVars>>

\* No second invocation is running.
PeerIdle == [stage |-> "idle"]

\* No request is being handled.
PostIdle ==
  /\ form = [x \in {} |-> ""] /\ stage = "idle" /\ response = NoResp
  /\ finalVideoUrl = "" /\ audioUrl = "" /\ processedAudio = NoResp
  /\ pending = NoResp /\ ext = [fetch |-> 0, upload |-> 0, submit |-> 0]
  /\ inFlight = FALSE /\ timerPending = {} /\ aborted = FALSE
  /\ now = ClockStart /\ s3 = <<>>
  /\ peer = PeerIdle

\* pollJobStatus is not running.
PollIdle ==
  /\ pollPc = "idle" /\ jobId = "" /\ maxAttempts = 0
  /\ attempt = 0 /\ queries = 0 /\ delays = 0 /\ onlyProcessing = TRUE
  /\ lastResp = NoResp
  /\ pollOut = Pending

\* retry is not running.
RetryIdle ==
  /\ retryPc = "idle" /\ retries = 0 /\ delay = 0 /\ rAttempt = 0
  /\ lastError = Undefined /\ calls = 0 /\ sleeps = 0 /\ sleepLens = {}
  /\ nFail = 0 /\ lastOp = NoResp /\ retryOut = Pending

----------------------------------------------------------------------------
\* Configuration

\* The environments the process may be started in: complete, or with one of
\* the values missing.
FullEnv ==
  [MODAL_START_MERGE_URL |-> "https://modal/start",
   MODAL_CHECK_STATUS_URL |-> "https://modal/status",
   MODAL_API_KEY |-> "mk",
   ELEVEN_LABS_API_KEY |-> "ek"]

Without(obj, f) == [g \in DOMAIN obj \ {f} |-> obj[g]]

Envs == {FullEnv} \cup {Without(FullEnv, f) : f \in DOMAIN FullEnv}

----------------------------------------------------------------------------
\* pollJobStatus

\* What a status query can produce: the fetch rejects, the response is not
\* OK, its body is not JSON, or it is a JSON object.
StatusPayloads ==
  { [status |-> "processing"],
    [status |-> "completed", url |-> "https://cdn/final.mp4"],
    [status |-> "completed"],
    [status |-> "error", error |-> "bad audio"],
    [status |-> "error", error |-> "Job processing failed: codec"],
    [status |-> "error"],
    [status |-> "queued"],
    [job_id |-> "abc123"] }

StatusResponses ==
  { [kind |-> "reject", error |-> Err("TypeError", "fetch failed")],
    [kind |-> "http", ok |-> FALSE, status |-> 500,
     statusText |-> "Internal Server Error"],
    [kind |-> "badjson",
     error |-> Err("SyntaxError", "Unexpected token < in JSON at position 0")] }
  \cup { [kind |-> "json", data |-> p] : p \in StatusPayloads }

\* The response r is a JSON object whose status field is st.
IsStatus(r, st) == r.kind = "json" /\ Has(r.data, "status") /\ r.data.status = st

\* StatusSwitch with the `return` of line 70 lost: a completed job is
\* treated like one still processing.
StatusSwitchNoReturn(data) ==
  CASE Has(data, "status") /\ data.status = "completed" ->
         IF ~Truthy(data, "url")
           THEN Throw(Err("Error",
                  "Completed status received but missing URL in response"))
           ELSE [kind |-> "sleepProcessing"]
    [] Has(data, "status") /\ data.status = "error" ->
         Throw(Err("Error", IF Truthy(data, "error") THEN data.error
                            ELSE "Job processing failed"))
    [] Has(data, "status") /\ data.status = "processing" ->
         [kind |-> "sleepProcessing"]
    [] OTHER ->
         Throw(Err("Error", "Unexpected status: " \o Interp(data, "status")))

\* StatusSwitch with the URL test of line 66 lost: whatever the url field
\* holds is returned.
StatusSwitchUnchecked(data) ==
  CASE Has(data, "status") /\ data.status = "completed" ->
         Return(IF Has(data, "url") THEN data.url ELSE "undefined")
    [] Has(data, "status") /\ data.status = "error" ->
         Throw(Err("Error", IF Truthy(data, "error") THEN data.error
                            ELSE "Job processing failed"))
    [] Has(data, "status") /\ data.status = "processing" ->
         [kind |-> "sleepProcessing"]
    [] OTHER ->
         Throw(Err("Error", "Unexpected status: " \o Interp(data, "status")))

\* The switch on statusData.status (lines 64-80).
StatusSwitch(data) ==
  CASE Has(data, "status") /\ data.status = "completed" ->
         IF ~Truthy(data, "url")
           THEN Throw(Err("Error",
                  "Completed status received but missing URL in response"))
           ELSE Return(data.url)
    [] Has(data, "status") /\ data.status = "error" ->
         Throw(Err("Error", IF Truthy(data, "error") THEN data.error
                            ELSE "Job processing failed"))
    [] Has(data, "status") /\ data.status = "processing" ->
         [kind |-> "sleepProcessing"]
    [] OTHER ->
         Throw(Err("Error", "Unexpected status: " \o Interp(data, "status")))

\* The try block (lines 44-80) on what the query produced.
TryBody(r) ==
  CASE r.kind = "reject" -> Throw(r.error)
    [] r.kind = "http" /\ ~r.ok ->
         Throw(Err("Error", "Failed to check job status: "
                 \o ToString(r.status) \o " " \o r.statusText))
    [] r.kind = "badjson" -> Throw(r.error)
    [] OTHER -> StatusSwitch(r.data)

\* IsDefinitive with the 'Unexpected status' clause of line 86 lost.
IsDefinitiveNoUnexpected(e) ==
  \/ Includes(e.message, "missing URL")
  \/ Includes(e.message, "Job processing failed")

\* The test of lines 84-87: the errors the catch block rethrows at once.
IsDefinitive(e) ==
  \/ Includes(e.message, "missing URL")
  \/ Includes(e.message, "Unexpected status")
  \/ Includes(e.message, "Job processing failed")

\* CatchBlock with the last-attempt rethrow of line 90 lost.
CatchBlockNoLastRethrow(e, att, max) ==
  IF IsDefinitive(e) THEN Throw(e) ELSE [kind |-> "sleepCatch"]

\* The catch block (lines 81-92) on an error thrown in the try block.
CatchBlock(e, att, max) ==
  IF IsDefinitive(e) THEN Throw(e)
  ELSE IF att = max - 1 THEN Throw(e)
  ELSE [kind |-> "sleepCatch"]

\* Iteration raising the timeout straight after a `processing` answer on
\* the last attempt, without the wait of line 75.
IterationNoFinalDelay(r, att, max) ==
  LET t == TryBody(r)
  IN  IF t.kind = "throw" THEN CatchBlock(t.error, att, max)
      ELSE IF t.kind = "sleepProcessing" /\ att = max - 1
        THEN Throw(Err("Error", "Job processing timed out"))
      ELSE t

\* One loop iteration up to its next await or its exit.
Iteration(r, att, max) ==
  LET t == TryBody(r)
  IN  IF t.kind = "throw" THEN CatchBlock(t.error, att, max) ELSE t

\* Lines 39-41: the configuration check on entry.
PollEnter ==
  /\ pollPc = "enter"
  /\ IF ~Truthy(env, "MODAL_CHECK_STATUS_URL") \/ ~Truthy(env, "MODAL_API_KEY")
       THEN /\ pollOut' = Throw(Err("Error", "Modal API configuration is missing"))
            /\ pollPc' = "done"
       ELSE /\ pollOut' = pollOut
            /\ pollPc' = IF attempt < maxAttempts THEN "query" ELSE "done"
  /\ UNCHANGED <<jobId, maxAttempts, attempt, queries, delays, onlyProcessing, lastResp>>

\* Lines 48-92: the query is issued and settles.
PollQuery ==
  /\ pollPc = "query"
  /\ \E r \in StatusResponses :
       LET o == Iteration(r, attempt, maxAttempts)
       IN  /\ queries' = queries + 1
           /\ lastResp' = r
           /\ onlyProcessing' =
                (onlyProcessing /\ (lastResp = NoResp \/ IsStatus(lastResp, "processing")))
           /\ IF o.kind \in {"return", "throw"}
                THEN pollOut' = o /\ pollPc' = "done"
                ELSE pollOut' = pollOut /\ pollPc' = o.kind
  /\ UNCHANGED <<jobId, maxAttempts, attempt, delays>>

\* PollSleep with the loop test of line 43 off by one (attempt <= maxAttempts).
PollSleepOffByOne ==
  /\ pollPc \in {"sleepProcessing", "sleepCatch"}
  /\ delays' = delays + 1
  /\ attempt' = attempt + 1
  /\ IF attempt + 1 <= maxAttempts
       THEN pollPc' = "query" /\ pollOut' = pollOut
       ELSE /\ pollPc' = "done"
            /\ pollOut' = Throw(Err("Error", "Job processing timed out"))
  /\ UNCHANGED <<jobId, maxAttempts, queries, onlyProcessing, lastResp>>

\* Lines 75 and 91, then the loop's attempt++ and test, then line 95.
PollSleep ==
  /\ pollPc \in {"sleepProcessing", "sleepCatch"}
  /\ delays' = delays + 1
  /\ attempt' = attempt + 1
  /\ IF attempt + 1 < maxAttempts
       THEN pollPc' = "query" /\ pollOut' = pollOut
       ELSE /\ pollPc' = "done"
            /\ pollOut' = Throw(Err("Error", "Job processing timed out"))
  /\ UNCHANGED <<jobId, maxAttempts, queries, onlyProcessing, lastResp>>

\* pollJobStatus on its own, called with any job id and attempt budget.
InitPoll ==
  /\ env \in Envs
  /\ pollPc = "enter"
  /\ jobId \in {"abc123"}
  /\ maxAttempts \in 1..PollBudgetBound
  /\ attempt = 0 /\ queries = 0 /\ delays = 0 /\ onlyProcessing = TRUE
  /\ lastResp = NoResp
  /\ pollOut = Pending
  /\ RetryIdle

  /\ PostIdle

NextPoll ==
  \/ PollEnter /\ UNCHANGED <<env, retryVars, postVars>>
  \/ PollQuery /\ UNCHANGED <<env, retryVars, postVars>>
  \/ PollSleep /\ UNCHANGED <<env, retryVars, postVars>>

SpecPoll == InitPoll /\ [][NextPoll]_vars

----------------------------------------------------------------------------
\* retry

\* IsLastAttempt never recognising the last attempt.
IsLastAttemptNever(att, n) == FALSE

\* Line 122: the attempt that failed was the last one.
IsLastAttempt(att, n) == att = n

\* NextLastError keeping the first failure instead of the latest.
NextLastErrorFirst(last, e) == IF last = Undefined THEN Throw(e) ELSE last

\* Line 121: lastError after a failure e.
NextLastError(last, e) == Throw(e)

\* RetrySettle with the wait of line 126 lost: the next attempt follows a
\* failure at once.
RetrySettleNoSleep(o) ==
  /\ calls' = calls + 1
  /\ lastOp' = o
  /\ IF o.kind = "return"
       THEN /\ retryOut' = o
            /\ retryPc' = "done"
            /\ UNCHANGED <<lastError, nFail, rAttempt>>
       ELSE /\ nFail' = nFail + 1
            /\ lastError' = NextLastError(lastError, o.error)
            /\ IF IsLastAttempt(rAttempt, retries)
                 THEN retryOut' = lastError' /\ retryPc' = "done"
                      /\ rAttempt' = rAttempt
                 ELSE retryOut' = retryOut /\ retryPc' = "call"
                      /\ rAttempt' = rAttempt + 1
  /\ UNCHANGED <<retries, delay, sleeps, sleepLens>>

\* Lines 118-127: the awaited operation settles as o (a Return or a Throw).
RetrySettle(o) ==
  /\ calls' = calls + 1
  /\ lastOp' = o
  /\ IF o.kind = "return"
       THEN /\ retryOut' = o
            /\ retryPc' = "done"
            /\ UNCHANGED <<lastError, nFail>>
       ELSE /\ nFail' = nFail + 1
            /\ lastError' = NextLastError(lastError, o.error)
            /\ IF IsLastAttempt(rAttempt, retries)
                 THEN retryOut' = lastError' /\ retryPc' = "done"
                 ELSE retryOut' = retryOut /\ retryPc' = "sleep"
  /\ UNCHANGED <<retries, delay, rAttempt, sleeps, sleepLens>>

\* Line 126, then the loop's attempt++ and test, then line 130.
RetrySleep ==
  /\ retryPc = "sleep"
  /\ sleeps' = sleeps + 1
  /\ sleepLens' = sleepLens \cup {delay}
  /\ rAttempt' = rAttempt + 1
  /\ IF rAttempt + 1 <= retries
       THEN retryPc' = "call" /\ retryOut' = retryOut
       ELSE retryPc' = "done" /\ retryOut' = lastError
  /\ UNCHANGED <<retries, delay, lastError, calls, nFail, lastOp>>

\* The outcomes of the n-th invocation of an arbitrary operation: a value, or
\* a failure that tells which invocation it comes from.
OpOutcomes(n) ==
  { Return(v) : v \in {"v1", "v2"} }
  \cup { Throw(Err(nm, "failure " \o ToString(n))) : nm \in {"Error", "AbortError"} }

\* Line 119 for an arbitrary operation: it is invoked and settles.
RetryCall ==
  /\ retryPc = "call"
  /\ \E o \in OpOutcomes(calls + 1) : RetrySettle(o)

\* retry on its own, for any retry count and delay.
InitRetry ==
  /\ env = FullEnv
  /\ PollIdle
  /\ retryPc = "call"
  /\ retries \in 1..RetryBound
  /\ delay \in {0, 250, RETRY_DELAY}
  /\ rAttempt = 1
  /\ lastError = Undefined /\ calls = 0 /\ sleeps = 0 /\ sleepLens = {}
  /\ nFail = 0 /\ lastOp = NoResp /\ retryOut = Pending
  /\ PostIdle

NextRetry ==
  \/ RetryCall /\ UNCHANGED <<env, pollVars, postVars>>
  \/ RetrySleep /\ UNCHANGED <<env, pollVars, postVars>>

SpecRetry == InitRetry /\ [][NextRetry]_vars

----------------------------------------------------------------------------
\* uploadToS3 (src/lib/s3.ts)

S3_BUCKET_NAME == "bucket"
AWS_REGION == "us-east-1"

\* Lines 12-17: the PutObject command for (fileBuffer, fileName).
PutObjectCommand(fileBuffer, fileName) ==
  [Bucket |-> S3_BUCKET_NAME,
   Key |-> "processed-audio/" \o fileName,
   Body |-> fileBuffer,
   ContentType |-> "audio/wav"]

\* PublicUrl naming fileName at the root of the bucket.
PublicUrlNoPrefix(fileName) ==
  "https://" \o S3_BUCKET_NAME \o ".s3." \o AWS_REGION \o ".amazonaws.com/"
    \o fileName

\* Line 22: the public URL returned for fileName.
PublicUrl(fileName) ==
  "https://" \o S3_BUCKET_NAME \o ".s3." \o AWS_REGION
    \o ".amazonaws.com/processed-audio/" \o fileName

----------------------------------------------------------------------------
\* POST

\* The forms a request may carry: the `audio` file field, the `videoUrl`
\* text field, both or neither.
Files ==
  { [name |-> "clip.mp4", type |-> "video/mp4", size |-> 2],
    [name |-> "notes.txt", type |-> "text/plain", size |-> 1] }

Urls ==
  { "https://h.io/v/clip.MP4?t=1", "https://h.io/clip.mkv", "https://h.io/",
    "not a url", "" }

Forms ==
  { [x \in {} |-> ""] }
  \cup { [audio |-> f] : f \in Files }
  \cup { [videoUrl |-> u] : u \in Urls }
  \cup { [audio |-> f, videoUrl |-> u] : f \in Files, u \in Urls }

\* Lines 25-28.
isValidVideoFile(file) ==
  file.type \in {"video/mp4", "video/quicktime", "video/x-msvideo"}

\* ValidExtension accepting whatever follows the last dot.
ValidExtensionAny(pathname) == SplitPop(pathname, ".") # ""

\* Lines 158-159: the extension test on the URL's pathname.
ValidExtension(pathname) ==
  LET extension == ToLowerCase(SplitPop(pathname, "."))
  IN  extension # "" /\ extension \in {"mp4", "mov", "avi"}

\* ErrorResponse leaking the processed-audio URL already produced.
ErrorResponsePartial(status, message) ==
  [status |-> status,
   body |-> IF audioUrl = "" THEN [error |-> message]
            ELSE [error |-> message, processedAudio |-> audioUrl]]

\* NextResponse.json({ error }, { status }).
ErrorResponse(status, message) ==
  [status |-> status, body |-> [error |-> message]]

\* Catch answering as for a bad request.
CatchBadRequest(e) == ErrorResponse(400, e.message)

\* Lines 274-282: the handler's catch block.
Catch(e) == ErrorResponse(500, e.message)

\* Lines 269-272.
SuccessResponse(audio, final) ==
  [status |-> 200, body |-> [processedAudio |-> audio, finalVideo |-> final]]

\* Lines 135-190: what the handler decides before its first external call.
Validate(e, f) ==
  IF ~Truthy(e, "ELEVEN_LABS_API_KEY")
    THEN [kind |-> "respond", response |-> Catch(Err("Error",
            "ELEVEN_LABS_API_KEY is not set in the environment variables"))]
  ELSE IF ~Truthy(e, "MODAL_START_MERGE_URL") \/ ~Truthy(e, "MODAL_API_KEY")
    THEN [kind |-> "respond",
          response |-> Catch(Err("Error", "Modal API configuration is missing"))]
  ELSE IF ~Has(f, "audio") /\ ~Truthy(f, "videoUrl")
    THEN [kind |-> "respond",
          response |-> ErrorResponse(400, "No video file or URL provided")]
  ELSE IF Truthy(f, "videoUrl")
    THEN LET urlObj == ParseURL(f.videoUrl)
         IN  IF ~urlObj.ok
               THEN [kind |-> "respond",
                     response |-> ErrorResponse(400, "Invalid URL format")]
             ELSE IF ~ValidExtension(urlObj.pathname)
               THEN [kind |-> "respond",
                     response |-> ErrorResponse(400,
                       "Invalid video URL. URL must point to an MP4, MOV, or AVI file")]
             ELSE [kind |-> "fetch"]
  ELSE IF ~isValidVideoFile(f.audio)
    THEN [kind |-> "respond",
          response |-> ErrorResponse(400,
            "Invalid file type. Please upload a video file (MP4, MOV, or AVI)")]
  ELSE [kind |-> "upload"]

\* Validate tabulated over the environments and forms a request can meet:
\* the decision depends on nothing else, and is computed once for each pair.
ValidateTable == [e \in Envs |-> [f \in Forms |-> Validate(e, f)]]

\* Date.now(): time does not run backwards between two readings.
DateNow(t) == t \in {now, now + 1}

\* Lines 202-205: retry is called for the isolation operation.
EnterIsolation ==
  /\ stage' = "isolate"
  /\ retryPc' = "call" /\ retries' = MAX_RETRIES /\ delay' = RETRY_DELAY
  /\ rAttempt' = 1
  /\ UNCHANGED <<lastError, calls, sleeps, sleepLens, nFail, lastOp, retryOut>>

\* Lines 134-199: configuration check, validation, and the first external
\* call issued (the fetch of the URL or the upload of the original).
PostValidate ==
  /\ stage = "start" /\ response = NoResp
  /\ LET v == ValidateTable[env][form]
     IN  CASE v.kind = "respond" ->
                /\ response' = v.response
                /\ UNCHANGED <<stage, finalVideoUrl, pending, ext, now>>
           [] v.kind = "fetch" ->
                /\ finalVideoUrl' = form.videoUrl
                /\ stage' = "fetchVideo"
                /\ pending' = [url |-> form.videoUrl]
                /\ ext' = [ext EXCEPT !.fetch = @ + 1]
                /\ UNCHANGED <<response, now>>
           [] v.kind = "upload" ->
                /\ DateNow(now')
                /\ stage' = "uploadOriginal"
                /\ pending' =
                     [fileBuffer |-> [of |-> form.audio.name, bytes |-> form.audio.size],
                      fileName |-> "original-videos/" \o ToString(now')
                                     \o "-original-" \o form.audio.name]
                /\ ext' = [ext EXCEPT !.upload = @ + 1]
                /\ UNCHANGED <<response, finalVideoUrl>>
  /\ UNCHANGED <<form, audioUrl, processedAudio, inFlight, timerPending, aborted, s3>>
  /\ UNCHANGED <<env, pollVars, retryVars, peer>>

\* Lines 172-183: the fetch of the video URL settles.
PostFetchSettle ==
  /\ stage = "fetchVideo" /\ response = NoResp
  /\ \E ok \in BOOLEAN :
       IF ok
         THEN /\ EnterIsolation
              /\ pending' = NoResp
              /\ UNCHANGED response
         ELSE /\ response' = ErrorResponse(400,
                   "Failed to access video URL. Please ensure the URL is publicly accessible.")
              /\ UNCHANGED <<stage, pending, retryVars>>
  /\ UNCHANGED <<form, finalVideoUrl, audioUrl, processedAudio, ext, inFlight,
                 timerPending, aborted, now, s3>>
  /\ UNCHANGED <<env, pollVars, peer>>

\* Line 199 (s3.ts lines 19-22): the upload of the original settles.
PostUploadOriginalSettle ==
  /\ stage = "uploadOriginal" /\ response = NoResp
  /\ \E ok \in BOOLEAN :
       IF ok
         THEN /\ s3' = Append(s3, PutObjectCommand(pending.fileBuffer, pending.fileName))
              /\ finalVideoUrl' = PublicUrl(pending.fileName)
              /\ EnterIsolation
              /\ pending' = NoResp
              /\ UNCHANGED response
         ELSE /\ response' = Catch(Err("AccessDenied", "Access Denied"))
              /\ UNCHANGED <<stage, pending, retryVars, s3, finalVideoUrl>>
  /\ UNCHANGED <<form, audioUrl, processedAudio, ext, inFlight, timerPending,
                 aborted, now>>
  /\ UNCHANGED <<env, pollVars, peer>>

\* clearTimeout leaving the timer set.
ClearTimeoutNoop(timers, a) == timers

\* Lines 218-220: the finally block's clearTimeout(timeout).
ClearTimeout(timers, a) == timers \ {a}

\* Lines 207-213: one isolation attempt starts: the controller, its abort
\* timer, and the call.
IsoStart ==
  /\ stage = "isolate" /\ retryPc = "call" /\ ~inFlight
  /\ inFlight' = TRUE /\ aborted' = FALSE
  /\ timerPending' = timerPending \cup {rAttempt}
  /\ UNCHANGED <<form, stage, response, finalVideoUrl, audioUrl, processedAudio,
                 pending, ext, now, s3>>
  /\ UNCHANGED <<env, pollVars, retryVars, peer>>

\* Line 208: a pending timer runs and aborts its attempt's controller; that
\* aborts the call in flight when the timer is that call's own.
IsoTimerFire ==
  /\ \E a \in timerPending :
       /\ timerPending' = timerPending \ {a}
       /\ aborted' = (aborted \/ (inFlight /\ a = rAttempt))
  /\ UNCHANGED <<form, stage, response, finalVideoUrl, audioUrl, processedAudio,
                 pending, ext, inFlight, now, s3>>
  /\ UNCHANGED <<env, pollVars, retryVars, peer>>

\* How an isolation call can settle: a stream of some bytes or of none, a
\* null result, a rejection by the service, or, once aborted, an AbortError.
IsoSettlements ==
  IF aborted
    THEN { [kind |-> "reject",
            error |-> Err("AbortError", "This operation was aborted")] }
    ELSE { [kind |-> "resolve", result |-> [stream |-> 500]],
           [kind |-> "resolve", result |-> [stream |-> 0]],
           [kind |-> "resolve", result |-> [x \in {} |-> 0]],
           [kind |-> "reject", error |-> Err("Error", "Status code: 422")] }

\* Lines 211-217: the operation's outcome for a settlement of the call; the
\* null result is modelled as the object with no stream.
IsoOperation(settled) ==
  IF settled.kind = "reject" THEN Throw(settled.error)
  ELSE IF ~Has(settled.result, "stream")
    THEN Throw(Err("Error", "No audio received from ElevenLabs"))
  ELSE Return(settled.result)

\* Lines 211-220 inside retry's lines 118-127: the call settles, the timer is
\* cleared, and retry handles the outcome.
IsoSettle ==
  /\ stage = "isolate" /\ retryPc = "call" /\ inFlight
  /\ \E settled \in IsoSettlements : RetrySettle(IsoOperation(settled))
  /\ inFlight' = FALSE /\ timerPending' = ClearTimeout(timerPending, rAttempt)
  /\ UNCHANGED <<form, stage, response, finalVideoUrl, audioUrl, processedAudio,
                 pending, ext, aborted, now, s3>>
  /\ UNCHANGED <<env, pollVars, peer>>

\* IsolationError reporting every failure as a failure after the attempts.
IsolationErrorNoTimeout(e) ==
  Err("Error", "ElevenLabs audio processing failed after "
        \o ToString(MAX_RETRIES) \o " attempts: " \o e.message)

\* Lines 225-231: the error the isolation stage surfaces.
IsolationError(e) ==
  IF e.name = "AbortError"
    THEN Err("Error", "ElevenLabs processing timed out after 5 minutes")
    ELSE Err("Error", "ElevenLabs audio processing failed after "
               \o ToString(MAX_RETRIES) \o " attempts: " \o e.message)

\* Lines 205, 225-234: retry has ended; on success streamToBuffer starts.
\* retry's frame is gone: its locals hold nothing any more, the counts of
\* what it did stay.
PostAfterRetry ==
  /\ stage = "isolate" /\ retryPc = "done" /\ response = NoResp
  /\ IF retryOut.kind = "return"
       THEN /\ processedAudio' = retryOut.value
            /\ stage' = "streamToBuffer"
            /\ UNCHANGED response
       ELSE /\ response' = Catch(IsolationError(retryOut.error))
            /\ UNCHANGED <<stage, processedAudio>>
  /\ retryPc' = "idle" /\ rAttempt' = 0 /\ lastError' = Undefined
  /\ lastOp' = NoResp /\ retryOut' = Pending
  /\ UNCHANGED <<retries, delay, calls, sleeps, sleepLens, nFail>>
  /\ UNCHANGED <<form, finalVideoUrl, audioUrl, pending, ext, inFlight,
                 timerPending, aborted, now, s3>>
  /\ UNCHANGED <<env, pollVars, peer>>

\* Lines 237-240: the file name of the processed audio.
AudioFileName(f, t) ==
  LET fileName ==
        IF Truthy(f, "videoUrl")
          THEN LET last == SplitPop(ParseURL(f.videoUrl).pathname, "/")
               IN  IF last = "" THEN "video" ELSE last
          ELSE f.audio.name
  IN  ToString(t) \o "-processed-" \o StripExtension(fileName) \o ".wav"

\* Lines 234-241: the stream has been read (or broke); the upload of the
\* processed audio is issued.
PostStreamSettle ==
  /\ stage = "streamToBuffer" /\ response = NoResp
  /\ \E ok \in BOOLEAN :
       IF ok
         THEN /\ DateNow(now')
              /\ pending' = [fileBuffer |-> [of |-> "audio", bytes |-> processedAudio.stream],
                             fileName |-> "processed-audio/" \o AudioFileName(form, now')]
              /\ stage' = "uploadProcessed"
              /\ ext' = [ext EXCEPT !.upload = @ + 1]
              /\ UNCHANGED response
         ELSE /\ response' = Catch(Err("Error", "aborted"))
              /\ UNCHANGED <<stage, pending, ext, now>>
  /\ UNCHANGED <<form, finalVideoUrl, audioUrl, processedAudio, inFlight,
                 timerPending, aborted, s3>>
  /\ UNCHANGED <<env, pollVars, retryVars, peer>>

\* MergeRequest with the two URLs in each other's place.
MergeRequestSwapped(video, audio) == [video_url |-> audio, audio_url |-> video]

\* Lines 250-253: the body of the merge submission.
MergeRequest(video, audio) == [video_url |-> video, audio_url |-> audio]

\* Lines 241-254: the upload of the processed audio settles; the merge job
\* is submitted.
PostUploadProcessedSettle ==
  /\ stage = "uploadProcessed" /\ response = NoResp
  /\ \E ok \in BOOLEAN :
       IF ok
         THEN /\ s3' = Append(s3, PutObjectCommand(pending.fileBuffer, pending.fileName))
              /\ audioUrl' = PublicUrl(pending.fileName)
              /\ pending' = MergeRequest(finalVideoUrl, audioUrl')
              /\ stage' = "mergeSubmit"
              /\ ext' = [ext EXCEPT !.submit = @ + 1]
              /\ UNCHANGED response
         ELSE /\ response' = Catch(Err("AccessDenied", "Access Denied"))
              /\ UNCHANGED <<stage, pending, ext, s3, audioUrl>>
  /\ UNCHANGED <<form, finalVideoUrl, processedAudio, inFlight, timerPending,
                 aborted, now>>
  /\ UNCHANGED <<env, pollVars, retryVars, peer>>

\* How the merge submit can settle.
SubmitSettlements ==
  { [kind |-> "reject", error |-> Err("TypeError", "fetch failed")],
    [kind |-> "http", ok |-> FALSE, text |-> "invalid token"],
    [kind |-> "badjson",
     error |-> Err("SyntaxError", "Unexpected end of JSON input")],
    [kind |-> "json", data |-> [job_id |-> "abc123"]],
    [kind |-> "json", data |-> [job_id |-> ""]],
    [kind |-> "json", data |-> [status |-> "processing"]] }

\* SubmitOutcome taking whatever job_id an OK answer holds.
SubmitOutcomeUnchecked(r) ==
  CASE r.kind = "reject" -> Throw(r.error)
    [] r.kind = "http" /\ ~r.ok ->
         Throw(Err("Error", "Failed to start video merge job: " \o r.text))
    [] r.kind = "badjson" -> Throw(r.error)
    [] OTHER ->
         IF Has(r.data, "job_id") THEN Return(r.data.job_id) ELSE Return("")

\* Lines 256-267: the outcome of the submission: a job id or an error.
SubmitOutcome(r) ==
  CASE r.kind = "reject" -> Throw(r.error)
    [] r.kind = "http" /\ ~r.ok ->
         Throw(Err("Error", "Failed to start video merge job: " \o r.text))
    [] r.kind = "badjson" -> Throw(r.error)
    [] OTHER ->
         IF ~Truthy(r.data, "job_id")
           THEN Throw(Err("Error", "No job ID received from Modal API"))
           ELSE Return(r.data.job_id)

\* Lines 244-267: the merge submit settles; pollJobStatus is called.
PostSubmitSettle ==
  /\ stage = "mergeSubmit" /\ response = NoResp
  /\ \E r \in SubmitSettlements :
       LET o == SubmitOutcome(r)
       IN  IF o.kind = "return"
             THEN /\ stage' = "poll"
                  /\ pollPc' = "enter"
                  /\ jobId' = o.value
                  /\ maxAttempts' = DefaultMaxAttempts
                  /\ pending' = NoResp
                  /\ UNCHANGED response
             ELSE /\ response' = Catch(o.error)
                  /\ UNCHANGED <<stage, pending, pollPc, jobId, maxAttempts>>
  /\ UNCHANGED <<attempt, queries, delays, onlyProcessing, lastResp, pollOut>>
  /\ UNCHANGED <<form, finalVideoUrl, audioUrl, processedAudio, ext, inFlight,
                 timerPending, aborted, now, s3>>
  /\ UNCHANGED <<env, retryVars, peer>>

\* Lines 267-281: pollJobStatus has ended.
PostAfterPoll ==
  /\ stage = "poll" /\ pollPc = "done" /\ response = NoResp
  /\ response' = IF pollOut.kind = "return"
                   THEN SuccessResponse(audioUrl, pollOut.value)
                   ELSE Catch(pollOut.error)
  /\ UNCHANGED <<form, stage, finalVideoUrl, audioUrl, processedAudio, pending,
                 ext, inFlight, timerPending, aborted, now, s3>>
  /\ UNCHANGED <<env, pollVars, retryVars, peer>>

\* One request, in any environment, with any form.
Init ==
  /\ env \in Envs
  /\ PollIdle
  /\ RetryIdle
  /\ form \in Forms
  /\ stage = "start" /\ response = NoResp
  /\ finalVideoUrl = "" /\ audioUrl = "" /\ processedAudio = NoResp
  /\ pending = NoResp /\ ext = [fetch |-> 0, upload |-> 0, submit |-> 0]
  /\ inFlight = FALSE /\ timerPending = {} /\ aborted = FALSE
  /\ now = ClockStart /\ s3 = <<>>
  /\ peer = PeerIdle

Next ==
  \/ PostValidate
  \/ PostFetchSettle
  \/ PostUploadOriginalSettle
  \/ IsoStart
  \/ IsoTimerFire
  \/ IsoSettle
  \/ RetrySleep /\ UNCHANGED <<env, pollVars, postVars>>
  \/ PostAfterRetry
  \/ PostStreamSettle
  \/ PostUploadProcessedSettle
  \/ PostSubmitSettle
  \/ PollEnter /\ UNCHANGED <<env, retryVars, postVars>>
  \/ PollQuery /\ UNCHANGED <<env, retryVars, postVars>>
  \/ PollSleep /\ UNCHANGED <<env, retryVars, postVars>>
  \/ PostAfterPoll

Spec == Init /\ [][Next]_vars

\* One request when every external call and every wait that was started
\* eventually settles: the handler is resumed after each of its awaits.
SpecLive == Init /\ [][Next]_vars /\ WF_vars(Next)

----------------------------------------------------------------------------
\* Two concurrent requests
\*
\* A second invocation of POST runs beside the first in the same process: the
\* two share the clock and the object store and interleave at their awaits.
\* Both are followed until they have submitted their merge job; every write
\* of a request to the object store precedes its submission.

\* The variables of the first invocation that the second never touches.
ownVars == <<form, stage, response, finalVideoUrl, audioUrl, processedAudio,
             pending, ext, inFlight, timerPending, aborted>>

\* The forms of two requests that pass validation: the file clip.mp4, and a
\* URL whose last path segment is clip.MP4.
ConcForms ==
  { [audio |-> [name |-> "clip.mp4", type |-> "video/mp4", size |-> 2]],
    [videoUrl |-> "https://h.io/v/clip.MP4?t=1"] }

\* Lines 134-199 for the second invocation.
PeerValidate ==
  /\ peer.stage = "start"
  /\ LET v == Validate(env, peer.form)
     IN  CASE v.kind = "respond" ->
                /\ peer' = [peer EXCEPT !.stage = "done"]
                /\ UNCHANGED now
           [] v.kind = "fetch" ->
                /\ peer' = [peer EXCEPT !.stage = "fetchVideo",
                                        !.finalVideoUrl = peer.form.videoUrl]
                /\ UNCHANGED now
           [] v.kind = "upload" ->
                /\ DateNow(now')
                /\ peer' = [peer EXCEPT
                     !.stage = "uploadOriginal",
                     !.pending =
                        [fileBuffer |-> [of |-> peer.form.audio.name,
                                         bytes |-> peer.form.audio.size],
                         fileName |-> "original-videos/" \o ToString(now')
                                        \o "-original-" \o peer.form.audio.name]]
  /\ UNCHANGED <<env, pollVars, retryVars, ownVars, s3>>

\* Lines 172-183 for the second invocation.
PeerFetchSettle ==
  /\ peer.stage = "fetchVideo"
  /\ \E ok \in BOOLEAN :
       peer' = [peer EXCEPT !.stage = IF ok THEN "isolate" ELSE "done"]
  /\ UNCHANGED <<env, pollVars, retryVars, ownVars, now, s3>>

\* Line 199 for the second invocation.
PeerUploadOriginalSettle ==
  /\ peer.stage = "uploadOriginal"
  /\ \E ok \in BOOLEAN :
       IF ok
         THEN /\ s3' = Append(s3, PutObjectCommand(peer.pending.fileBuffer,
                                                   peer.pending.fileName))
              /\ peer' = [peer EXCEPT
                   !.stage = "isolate",
                   !.finalVideoUrl = PublicUrl(peer.pending.fileName),
                   !.pending = NoResp]
         ELSE /\ peer' = [peer EXCEPT !.stage = "done"]
              /\ UNCHANGED s3
  /\ UNCHANGED <<env, pollVars, retryVars, ownVars, now>>

\* Lines 205-241 for the second invocation: its isolation stage ends, with a
\* stream that is read or with an error; the upload of its audio is issued.
PeerIsolated ==
  /\ peer.stage = "isolate"
  /\ \E ok \in BOOLEAN :
       IF ok
         THEN /\ DateNow(now')
              /\ peer' = [peer EXCEPT
                   !.stage = "uploadProcessed",
                   !.pending =
                      [fileBuffer |-> [of |-> "audio", bytes |-> 700],
                       fileName |-> "processed-audio/"
                                      \o AudioFileName(peer.form, now')]]
         ELSE /\ peer' = [peer EXCEPT !.stage = "done"]
              /\ UNCHANGED now
  /\ UNCHANGED <<env, pollVars, retryVars, ownVars, s3>>

\* Lines 241-254 for the second invocation.
PeerUploadProcessedSettle ==
  /\ peer.stage = "uploadProcessed"
  /\ \E ok \in BOOLEAN :
       IF ok
         THEN /\ s3' = Append(s3, PutObjectCommand(peer.pending.fileBuffer,
                                                   peer.pending.fileName))
              /\ peer' = [peer EXCEPT
                   !.stage = "mergeSubmit",
                   !.audioUrl = PublicUrl(peer.pending.fileName),
                   !.pending = MergeRequest(peer.finalVideoUrl,
                                            PublicUrl(peer.pending.fileName))]
         ELSE /\ peer' = [peer EXCEPT !.stage = "done"]
              /\ UNCHANGED s3
  /\ UNCHANGED <<env, pollVars, retryVars, ownVars, now>>

\* Two requests arrive in a configured deployment.
InitConc ==
  /\ env = FullEnv
  /\ PollIdle
  /\ RetryIdle
  /\ form \in ConcForms
  /\ stage = "start" /\ response = NoResp
  /\ finalVideoUrl = "" /\ audioUrl = "" /\ processedAudio = NoResp
  /\ pending = NoResp /\ ext = [fetch |-> 0, upload |-> 0, submit |-> 0]
  /\ inFlight = FALSE /\ timerPending = {} /\ aborted = FALSE
  /\ now = ClockStart /\ s3 = <<>>
  /\ \E f \in ConcForms :
       peer = [form |-> f, stage |-> "start", pending |-> NoResp,
               finalVideoUrl |-> "", audioUrl |-> ""]

NextConc ==
  \/ PostValidate
  \/ PostFetchSettle
  \/ PostUploadOriginalSettle
  \/ IsoStart
  \/ IsoTimerFire
  \/ IsoSettle
  \/ RetrySleep /\ UNCHANGED <<env, pollVars, postVars>>
  \/ PostAfterRetry
  \/ PostStreamSettle
  \/ PostUploadProcessedSettle
  \/ PeerValidate
  \/ PeerFetchSettle
  \/ PeerUploadOriginalSettle
  \/ PeerIsolated
  \/ PeerUploadProcessedSettle

SpecConc == InitConc /\ [][NextConc]_vars

----------------------------------------------------------------------------
\* Properties of pollJobStatus (checked under SpecPoll)

TimeoutError == Err("Error", "Job processing timed out")
\* A status query that failed in transport: the fetch rejected or the
\* response was not OK.
Transport(r) == r.kind = "reject" \/ (r.kind = "http" /\ ~r.ok)
\* A malformed payload: completed without a URL, or a status value outside
\* {processing, completed, error}.
Malformed(r) ==
  /\ r.kind = "json"
  /\ \/ IsStatus(r, "completed") /\ ~Truthy(r.data, "url")
     \/ ~Has(r.data, "status")
     \/ r.data.status \notin {"processing", "completed", "error"}

\* C1: once a status query has answered `error` with a reported detail, the
\* poller has failed with that detail: it is not waiting to delay or to query
\* again.
C1_ErrorStatusFailsAtOnce ==
  (IsStatus(lastResp, "error") /\ Truthy(lastResp.data, "error"))
    => /\ pollPc = "done"
       /\ pollOut = Throw(Err("Error", lastResp.data.error))

\* C3: when m `processing` answers (m < maxAttempts) were followed by
\* `completed` with a non-empty URL X, the poller has returned X after m+1
\* queries and m delays.
C3_ReturnsUrlAfterProcessing ==
  (IsStatus(lastResp, "completed") /\ Truthy(lastResp.data, "url") /\ onlyProcessing)
    => /\ pollPc = "done"
       /\ pollOut = Return(lastResp.data.url)
       /\ delays = queries - 1
       /\ attempt = queries - 1
       /\ queries - 1 < maxAttempts

C3_Witness ==
  /\ pollOut = Return("https://cdn/final.mp4") /\ onlyProcessing
  /\ queries = 3 /\ delays = 2

\* C4: when every one of the maxAttempts queries answered `processing`, the
\* poller ends only with the timeout error, after exactly maxAttempts queries.
C4_TimeoutAfterBudget ==
  /\ (onlyProcessing /\ IsStatus(lastResp, "processing") /\ queries = maxAttempts)
       => /\ pollPc \in {"sleepProcessing", "done"}
          /\ pollPc = "done" => pollOut = Throw(TimeoutError)
  /\ (onlyProcessing /\ IsStatus(lastResp, "processing") /\ pollPc = "done")
       => queries = maxAttempts /\ pollOut = Throw(TimeoutError)

C4_Witness ==
  /\ pollPc = "done" /\ maxAttempts >= 2 /\ queries = maxAttempts
  /\ onlyProcessing /\ IsStatus(lastResp, "processing")
  /\ pollOut = Throw(TimeoutError)

\* C5: a malformed status payload ends the poller at once with a protocol
\* error, whatever budget is left; the error is never the poll timeout.
C5_MalformedFailsAtOnce ==
  Malformed(lastResp)
    => /\ pollPc = "done"
       /\ pollOut.kind = "throw"
       /\ pollOut.error # TimeoutError
       /\ \/ Includes(pollOut.error.message, "missing URL")
          \/ Includes(pollOut.error.message, "Unexpected status")

C5_Witness ==
  /\ Malformed(lastResp) /\ pollPc = "done"
  /\ queries >= 2 /\ queries < maxAttempts

\* After a transport failure the poller is waiting to retry, unless the
\* attempt was the last: then it has thrown the transport error itself.
C6_TransportState ==
  (Transport(lastResp) /\ pollPc # "query")
    => IF attempt = maxAttempts - 1
         THEN /\ pollPc = "done"
              /\ pollOut.kind = "throw"
              /\ pollOut.error # TimeoutError
              /\ lastResp.kind = "reject" => pollOut.error = lastResp.error
              /\ lastResp.kind = "http" =>
                   Includes(pollOut.error.message, "Failed to check job status")
         ELSE pollPc = "sleepCatch" /\ pollOut = Pending

\* The wait after a transport failure is one delay, uses up one attempt and
\* leads to another query.
C6_TransportStep ==
  (Transport(lastResp) /\ pollPc = "sleepCatch")
    => /\ delays' = delays + 1
       /\ attempt' = attempt + 1
       /\ queries' = queries
       /\ pollPc' = "query"

\* C6: a transport failure on an attempt that is not the last leaves the
\* poller waiting, and its next steps are one delay, which uses up the
\* attempt, and then another query; on the last attempt the transport error
\* itself is thrown, not the timeout.
C6_TransportRetried == []C6_TransportState /\ [][C6_TransportStep]_vars

C6_Witness ==
  /\ Transport(lastResp) /\ pollPc = "done"
  /\ queries = maxAttempts /\ delays = maxAttempts - 1 /\ maxAttempts >= 2

\* C9: the poller returns a value only if the most recent status query
\* answered `completed` with a non-empty URL, and it returns that URL.
C9_ReturnsOnlyCompletedUrl ==
  (pollOut.kind = "return")
    => /\ IsStatus(lastResp, "completed")
       /\ Truthy(lastResp.data, "url")
       /\ pollOut.value = lastResp.data.url

C9_Witness ==
  /\ pollOut.kind = "return" /\ queries >= 2 /\ ~onlyProcessing

----------------------------------------------------------------------------
\* Properties of retry (checked under SpecRetry)

\* C7: an operation that fails k < N times and then succeeds makes retry
\* return that success after k+1 invocations and k waits, every wait of
\* length D and every wait between a failed invocation and the next one;
\* retry does not give up while fewer than N invocations have failed.
C7_RetryReturnsSuccess ==
  /\ lastOp.kind = "return"
       => /\ retryPc = "done" /\ retryOut = lastOp
          /\ nFail < retries
          /\ calls = nFail + 1 /\ sleeps = nFail
  /\ nFail < retries => retryOut.kind # "throw"
  /\ sleepLens \subseteq {delay}
  /\ retryPc = "call" => sleeps = calls
  /\ retryPc = "sleep" => sleeps = calls - 1 /\ lastOp.kind = "throw"

C7_Witness ==
  /\ retryOut = Return("v2") /\ nFail = 2 /\ calls = 3 /\ sleeps = 2
  /\ sleepLens = {RETRY_DELAY}

\* C8: an operation that fails on every invocation is invoked exactly N
\* times with N-1 waits, and retry throws the failure of the N-th invocation.
C8_RetryThrowsLastFailure ==
  /\ retryOut.kind = "throw"
       => /\ retryPc = "done"
          /\ calls = retries /\ nFail = retries /\ sleeps = retries - 1
          /\ retryOut.error.message = "failure " \o ToString(retries)
          /\ retryOut = lastOp
  /\ nFail = retries => retryOut.kind = "throw"

C8_Witness ==
  /\ retryOut.kind = "throw" /\ retries = 3 /\ calls = 3 /\ sleeps = 2

----------------------------------------------------------------------------
\* Properties of POST (checked under Spec)

\* How many of {uploaded file, remote URL} the request supplies.
Supplied ==
  (IF Has(form, "audio") THEN 1 ELSE 0) + (IF Truthy(form, "videoUrl") THEN 1 ELSE 0)

\* The isolation calls issued so far.
IsolationCalls == calls + (IF inFlight THEN 1 ELSE 0)

\* All external calls issued so far.
ExternalCalls == ext.fetch + ext.upload + ext.submit + IsolationCalls + queries

Failed == response # NoResp /\ response.status # 200

\* C2: in a configured deployment, a request that supplies neither or both of
\* {uploaded file, remote URL} never leaves validation: it issues no external
\* call and any response it gets is a 400.
C2_NotExactlyOneIsRejected ==
  (env = FullEnv /\ Supplied # 1)
    => /\ stage = "start"
       /\ ExternalCalls = 0
       /\ response # NoResp => response.status = 400

\* No external call of a stage after st has been issued.
NoLaterCalls(st) ==
  /\ st = "start" => ExternalCalls = 0
  /\ st = "fetchVideo" => ext.upload = 0
  /\ st = "uploadOriginal" => ext.fetch = 0 /\ ext.upload = 1
  /\ st \in {"fetchVideo", "uploadOriginal"} => IsolationCalls = 0
  /\ st \in {"fetchVideo", "uploadOriginal", "isolate", "streamToBuffer"}
       => ext.upload + ext.fetch = 1 /\ Len(s3) <= ext.upload
  /\ st \in {"fetchVideo", "uploadOriginal", "isolate", "streamToBuffer",
             "uploadProcessed"} => ext.submit = 0
  /\ st # "poll" => queries = 0 /\ pollPc = "idle"

\* A failed request: an error status, a body with the error message alone,
\* and no call of a later stage issued.
C10_FailedState ==
  Failed
    => /\ response.status \in {400, 500}
       /\ DOMAIN response.body = {"error"}
       /\ NoLaterCalls(stage)
       /\ ~inFlight

\* Nothing external happens once the response exists, and a failed
\* isolation stage or poll is answered by an error response next.
C10_FailedStep ==
  /\ response # NoResp
       => UNCHANGED <<response, ext, calls, queries, delays, sleeps, s3, inFlight>>
  /\ (stage = "isolate" /\ retryOut.kind = "throw") => Failed'
  /\ (stage = "poll" /\ pollOut.kind = "throw" /\ response = NoResp) => Failed'

\* C10: a failure at any stage ends the request there: the response is an
\* error status whose body holds the error message and nothing else, no call
\* of a later stage has been issued, and once the response exists no further
\* external call, wait or store write happens; a failed isolation stage or a
\* failed poll is answered by the error response in the next step.
C10_FailureAborts == []C10_FailedState /\ [][C10_FailedStep]_vars

C10_Witness ==
  /\ Failed /\ stage = "poll" /\ queries >= 2
  /\ audioUrl # "" /\ Len(s3) = 2

\* The handler's own configuration check (lines 135-141) passes.
ConfigPresent ==
  /\ Truthy(env, "ELEVEN_LABS_API_KEY")
  /\ Truthy(env, "MODAL_START_MERGE_URL")
  /\ Truthy(env, "MODAL_API_KEY")

\* The remote URLs that do not parse or whose path does not end in .mp4,
\* .mov or .avi, and the one that does (in upper case).
C11_BadUrls == {"https://h.io/clip.mkv", "https://h.io/", "not a url"}
C11_GoodUrls == {"https://h.io/v/clip.MP4?t=1"}

\* C11: a request whose remote URL does not parse, or whose path's extension
\* is not mp4, mov or avi (in any letter case), never leaves validation and
\* issues no fetch and no other external call; when the request reaches
\* validation its response is a 400 naming the URL; a URL ending in .MP4 is
\* not rejected by validation.
C11_BadUrlRejectedBeforeFetch ==
  /\ (Truthy(form, "videoUrl") /\ form.videoUrl \in C11_BadUrls)
       => /\ stage = "start"
          /\ ExternalCalls = 0
          /\ Len(s3) = 0
          /\ (ConfigPresent /\ response # NoResp)
               => /\ response.status = 400
                  /\ response.body.error \in
                       {"Invalid URL format",
                        "Invalid video URL. URL must point to an MP4, MOV, or AVI file"}
  /\ (Truthy(form, "videoUrl") /\ form.videoUrl \in C11_GoodUrls /\ ConfigPresent)
       => ~(stage = "start" /\ response # NoResp)

C11_Witness ==
  /\ ConfigPresent /\ Has(form, "audio")
  /\ Truthy(form, "videoUrl") /\ form.videoUrl = "https://h.io/clip.mkv"
  /\ response # NoResp /\ response.status = 400

\* C12: with a required configuration value absent, no request begins
\* processing: it never leaves the start of the handler and issues no
\* external call before it fails on the missing value.
C12_MissingConfigStopsBeforeProcessing ==
  (env # FullEnv) => (stage = "start" /\ ExternalCalls = 0)

IsolationTimeoutMessage == "ElevenLabs processing timed out after 5 minutes"

\* Every isolation call in flight has its own deadline pending until it
\* expires; at most N calls are made; a failed isolation stage has made N
\* calls and surfaces the timeout error exactly when its last attempt was
\* aborted by its deadline.
C13_DeadlineState ==
  /\ IsolationCalls <= MAX_RETRIES
  /\ inFlight => ((timerPending # {}) # aborted)
  /\ (stage = "isolate" /\ Failed)
       => /\ calls = MAX_RETRIES /\ nFail = MAX_RETRIES
          /\ aborted => response.body.error = IsolationTimeoutMessage
          /\ ~aborted
               => /\ response.body.error # IsolationTimeoutMessage
                  /\ Includes(response.body.error, "failed after 3 attempts")

\* Each call starts with a fresh deadline; a deadline that expires aborts the
\* call in flight; the aborted call settles as a failed attempt that counts.
C13_DeadlineStep ==
  /\ (~inFlight /\ inFlight') => (timerPending' # {} /\ ~aborted')
  /\ (timerPending # {} /\ timerPending' = {} /\ inFlight') => aborted'
  /\ (inFlight /\ aborted /\ ~inFlight')
       => /\ calls' = calls + 1 /\ nFail' = nFail + 1
          /\ lastOp'.kind = "throw" /\ lastOp'.error.name = "AbortError"
          /\ calls' < MAX_RETRIES => retryPc' = "sleep"
          /\ calls' = MAX_RETRIES => retryOut' = lastOp'

\* C13: every isolation attempt has its own deadline; an attempt whose
\* deadline expires is aborted and counts as one of the N = 3 attempts, so at
\* most N isolation calls are made; when the stage fails on a timed-out
\* attempt the error surfaced is the timeout error, which differs from the
\* error surfaced for an upstream rejection.
C13_AttemptDeadline == []C13_DeadlineState /\ [][C13_DeadlineStep]_vars

C13_Witness ==
  /\ stage = "isolate" /\ Failed /\ aborted /\ calls = MAX_RETRIES
  /\ response.body.error = IsolationTimeoutMessage

\* C14: a null or zero-byte isolation response is a failure: retry never
\* returns it, and an empty result is never written to the object store nor
\* named in a merge submission.
C14_EmptyResultIsFailure ==
  /\ retryOut.kind = "return"
       => (Has(retryOut.value, "stream") /\ retryOut.value.stream > 0)
  /\ \A i \in DOMAIN s3 : s3[i].Body.of = "audio" => s3[i].Body.bytes > 0
  /\ ext.submit > 0 => processedAudio.stream > 0

\* The errors a merge submission can end with: the service's refusal, the
\* missing job id, or the failure of the exchange itself.
C15_SubmitErrors ==
  { "Failed to start video merge job: invalid token",
    "No job ID received from Modal API",
    "fetch failed", "Unexpected end of JSON input" }

\* C15: a merge submission that is refused, or whose answer holds no job id,
\* fails the request with a submit error and no status query is issued; the
\* poller runs only with the non-empty job id a successful submission gave.
C15_PollingNeedsJobId ==
  /\ (stage = "mergeSubmit" /\ response # NoResp)
       => /\ response.status = 500
          /\ response.body.error \in C15_SubmitErrors
          /\ queries = 0 /\ pollPc = "idle" /\ jobId = ""
  /\ (pollPc # "idle" \/ queries > 0)
       => /\ stage = "poll" /\ ext.submit = 1
          /\ jobId # "" /\ jobId \in {r.data.job_id :
                 r \in {x \in SubmitSettlements :
                          x.kind = "json" /\ Has(x.data, "job_id")}}

C15_Witness ==
  /\ stage = "mergeSubmit" /\ response # NoResp
  /\ response.body.error = "No job ID received from Modal API"
  /\ queries = 0

\* C16: when a request with an uploaded file succeeds, the original is stored
\* under original-videos/{ts}-original-{name}, the isolated audio under
\* processed-audio/{ts}-processed-{stem}.wav, and the response holds
\* originalVideo, processedAudio and finalVideo, the last being the URL the
\* merge service reported.
C16_SuccessStoresAndReports ==
  (response # NoResp /\ response.status = 200 /\ ~Truthy(form, "videoUrl"))
    => /\ \E i \in DOMAIN s3 : \E t \in ClockStart..now :
            s3[i].Key = "original-videos/" \o ToString(t) \o "-original-"
                          \o form.audio.name
       /\ \E i \in DOMAIN s3 : \E t \in ClockStart..now :
            s3[i].Key = "processed-audio/" \o ToString(t) \o "-processed-"
                          \o StripExtension(form.audio.name) \o ".wav"
       /\ DOMAIN response.body = {"originalVideo", "processedAudio", "finalVideo"}
       /\ response.body.finalVideo = lastResp.data.url

\* The request failed in input validation: it reached validation and was
\* answered there (no input, malformed URL, disallowed extension or type).
ValidationFailure == Failed /\ stage = "start" /\ ConfigPresent

\* The request failed in the fetch of the caller's video URL.
RemoteFetchFailure == Failed /\ stage = "fetchVideo"

\* C17 as stated: a failure response has status 400 exactly when the failure
\* is an input-validation failure and 500 for every other failure, the
\* failed remote fetch included; its body is the error message alone.
C17_Status400IffValidation ==
  Failed
    => /\ response.status \in {400, 500}
       /\ DOMAIN response.body = {"error"}
       /\ response.status = 400 <=> ValidationFailure

\* C17: a failure response has status 400 exactly when the failure is an
\* input-validation failure or a failed fetch of the caller's video URL, and
\* 500 for every other failure (storage, isolation, submit, status, protocol,
\* poll timeout, missing configuration); its body is the error message alone.
C17_Status400IffValidationOrFetch ==
  Failed
    => /\ response.status \in {400, 500}
       /\ DOMAIN response.body = {"error"}
       /\ response.status = 400 <=> (ValidationFailure \/ RemoteFetchFailure)

C17_Witness ==
  /\ RemoteFetchFailure /\ response.status = 400
  /\ ext.fetch = 1 /\ IsolationCalls = 0

\* The URL under which the object store serves a key.
StoreUrl(key) == "https://bucket.s3.us-east-1.amazonaws.com/" \o key

\* C19: within one request the external calls follow the pipeline order and
\* never overlap: no isolation call is in flight outside the isolation stage,
\* the processed-audio upload starts after isolation has ended, the merge
\* submission is issued once that upload has been stored, the first status
\* query comes after the submission has been answered, and the submission
\* carries the request's video URL and the URL of the audio object stored.
C19_PipelineOrder ==
  /\ inFlight => (stage = "isolate" /\ response = NoResp)
  /\ stage \in {"start", "fetchVideo", "uploadOriginal"} => IsolationCalls = 0
  /\ stage \in {"streamToBuffer", "uploadProcessed", "mergeSubmit", "poll"}
       => /\ ~inFlight /\ retryPc = "idle" /\ timerPending = {}
          /\ IsolationCalls >= 1
          /\ ext.fetch + ext.upload >= 1
          /\ Has(processedAudio, "stream")
  /\ stage = "uploadProcessed"
       => /\ ext.submit = 0 /\ queries = 0
          /\ pending.fileBuffer = [of |-> "audio", bytes |-> processedAudio.stream]
  /\ ext.submit > 0
       => /\ ext.submit = 1
          /\ stage \in {"mergeSubmit", "poll"}
          /\ s3[Len(s3)].Body = [of |-> "audio", bytes |-> processedAudio.stream]
          /\ audioUrl = StoreUrl(s3[Len(s3)].Key)
  /\ stage = "mergeSubmit"
       => /\ queries = 0 /\ pollPc = "idle"
          /\ pending = [video_url |-> finalVideoUrl, audio_url |-> audioUrl]
          /\ finalVideoUrl # "" /\ finalVideoUrl # audioUrl
  /\ (pollPc # "idle" \/ queries > 0)
       => stage = "poll" /\ ext.submit = 1 /\ pending = NoResp

C19_Witness ==
  /\ stage = "poll" /\ queries >= 2 /\ calls >= 2
  /\ Len(s3) = 2 /\ response = NoResp

\* The writes of an original video to the object store so far.
OriginalWrites == {i \in DOMAIN s3 : s3[i].Body.of # "audio"}

UrlPath == Truthy(form, "videoUrl")
FilePath == ~Truthy(form, "videoUrl") /\ Has(form, "audio")

\* C20: the original video is written to the object store never when the
\* input is a remote URL, and exactly once, before isolation starts, when it
\* is an uploaded file; the video_url submitted to the merge service is the
\* caller's URL in the first case and the URL of the stored original in the
\* second.
C20_OriginalPersistedOnce ==
  /\ UrlPath
       => /\ OriginalWrites = {}
          /\ ext.upload <= 1
          /\ stage = "mergeSubmit" => pending.video_url = form.videoUrl
  /\ FilePath
       => /\ Cardinality(OriginalWrites) <= 1
          /\ ext.fetch = 0
          /\ stage \in {"isolate", "streamToBuffer", "uploadProcessed",
                        "mergeSubmit", "poll"}
               => /\ OriginalWrites = {1}
                  /\ s3[1].Body = [of |-> form.audio.name, bytes |-> form.audio.size]
                  /\ finalVideoUrl = StoreUrl(s3[1].Key)
          /\ stage = "mergeSubmit" => pending.video_url = StoreUrl(s3[1].Key)

C20_Witness ==
  /\ FilePath /\ stage = "mergeSubmit" /\ OriginalWrites = {1}
  /\ Len(s3) = 2 /\ pending.video_url = StoreUrl(s3[1].Key)

----------------------------------------------------------------------------
\* Properties of two concurrent requests (checked under SpecConc)

\* The most recent write to a key.
LastWrite(key) ==
  s3[CHOOSE i \in DOMAIN s3 :
       /\ s3[i].Key = key
       /\ \A j \in DOMAIN s3 : j > i => s3[j].Key # key]

\* C18: under any interleaving of two requests, the same file name and the
\* same clock value included, no two writes to the object store have the same
\* key, and the audio object a request names in its merge submission holds
\* the bytes that request isolated.
C18_NoSharedKey ==
  /\ \A i, j \in DOMAIN s3 : i # j => s3[i].Key # s3[j].Key
  /\ (stage = "mergeSubmit" /\ \E i \in DOMAIN s3 : StoreUrl(s3[i].Key) = audioUrl)
       => \A i \in DOMAIN s3 :
            StoreUrl(s3[i].Key) = audioUrl
              => LastWrite(s3[i].Key).Body.bytes = processedAudio.stream

----------------------------------------------------------------------------
\* Resource bounds of pollJobStatus (checked under SpecPoll)

\* Queries never exceed the budget and delays never exceed queries; the
\* timeout is raised only after the budget's last query answered
\* `processing` and one more delay was performed.
C22_BudgetState ==
  /\ queries <= maxAttempts
  /\ delays <= queries
  /\ attempt = delays
  /\ pollPc \in {"sleepProcessing", "sleepCatch"} => delays = queries - 1
  /\ (IsStatus(lastResp, "processing") /\ queries = maxAttempts)
       => pollPc \in {"sleepProcessing", "done"}
  /\ pollOut = Throw(TimeoutError)
       => /\ IsStatus(lastResp, "processing")
          /\ queries = maxAttempts /\ delays = maxAttempts

\* The step after the budget's last `processing` answer is one delay, with
\* no further query, and it raises the timeout.
C22_BudgetStep ==
  (pollPc = "sleepProcessing" /\ queries = maxAttempts)
    => /\ delays' = delays + 1
       /\ queries' = queries
       /\ pollPc' = "done"
       /\ pollOut' = Throw(TimeoutError)

\* C22: for any interleaving of `processing` answers and transport failures
\* the status queries issued never exceed maxAttempts and the delays never
\* exceed the queries; when the last query of the budget answers
\* `processing` the poller performs one more delay and then raises the
\* timeout.
C22_QueriesWithinBudget == []C22_BudgetState /\ [][C22_BudgetStep]_vars

C22_Witness ==
  /\ pollOut = Throw(TimeoutError) /\ ~onlyProcessing
  /\ maxAttempts >= 3 /\ queries = maxAttempts /\ delays = maxAttempts

----------------------------------------------------------------------------
\* The abort timer of an isolation attempt (checked under Spec)

\* A pending timer is the timer of the attempt in flight, which it has not
\* aborted; outside an attempt, and so after the isolation stage, no timer
\* is pending.
C23_TimerState ==
  /\ Cardinality(timerPending) <= 1
  /\ timerPending # {}
       => /\ stage = "isolate" /\ inFlight /\ response = NoResp
          /\ timerPending = {rAttempt}
          /\ ~aborted
  /\ ~inFlight => timerPending = {}
  /\ stage # "isolate" => timerPending = {}

\* The end of an attempt, however it ends, leaves no timer pending; a call is
\* aborted only by the timer set for it, while it is in flight.
C23_TimerStep ==
  /\ (inFlight /\ ~inFlight') => timerPending' = {}
  /\ (~aborted /\ aborted')
       => /\ inFlight /\ inFlight' /\ stage = "isolate"
          /\ timerPending = {rAttempt} /\ timerPending' = {}
          /\ rAttempt' = rAttempt
  /\ timerPending' # timerPending
       => \/ ~inFlight /\ inFlight' /\ timerPending' = {rAttempt}
          \/ inFlight /\ timerPending' = {}

\* C23: the abort timer of an attempt is cancelled when the attempt ends, by
\* success, by failure or by an empty result: at most one timer is pending
\* at any time, none is pending once the isolation stage is over, and a timer
\* aborts no attempt but its own and no later stage.
C23_TimerCleared == []C23_TimerState /\ [][C23_TimerStep]_vars

C23_Witness ==
  /\ stage = "isolate" /\ inFlight /\ rAttempt = 3 /\ timerPending = {3}
  /\ lastOp = Throw(Err("Error", "No audio received from ElevenLabs"))

----------------------------------------------------------------------------
\* Termination of a request (checked under SpecLive)

\* The calls and waits of a request stay within the retry count and the poll
\* budget.
C21_Bounds ==
  /\ IsolationCalls <= MAX_RETRIES
  /\ sleeps <= MAX_RETRIES - 1
  /\ queries <= DefaultMaxAttempts
  /\ delays <= DefaultMaxAttempts
  /\ ext.fetch + ext.upload <= 2 /\ ext.submit <= 1

\* A response, once produced, is the request's only response.
C21_OneResponse == response # NoResp => response' = response

\* C21: when every external call and every wait eventually returns or fails,
\* every request eventually produces a response, and exactly one; it makes at
\* most 3 isolation calls and at most 60 status queries.
C21_Terminates ==
  /\ <>(response # NoResp)
  /\ []C21_Bounds
  /\ [][C21_OneResponse]_vars

C21_Witness ==
  /\ response # NoResp /\ calls = MAX_RETRIES
  /\ queries = DefaultMaxAttempts /\ delays = DefaultMaxAttempts

====
